---- MODULE Spec2Model ----
(***************************************************************************)
(* Model of streamlit_app.py, the Korean learning game.                    *)
(*                                                                         *)
(* Streamlit re-executes the whole script on every user interaction; the   *)
(* only state that survives a run is st.session_state.  One action of the  *)
(* model is one user event: the on_click callback of the pressed button    *)
(* (if it has one) followed by one complete execution of run_game_step().  *)
(* A button can be pressed only if the previous run rendered it.  A        *)
(* Python exception (a failed Gateway call, a missing key) aborts the run: *)
(* assignments made before it persist, nothing after it is rendered.       *)
(***************************************************************************)
EXTENDS Integers, Sequences, FiniteSets, TLC

VARIABLES
    step,               \* st.session_state.step
    topic_info,         \* st.session_state.topic_info
    hangul_quiz_data,   \* st.session_state.hangul_quiz_data
    english_quiz_data,  \* st.session_state.english_quiz_data
    fill_blank_data,    \* st.session_state.fill_blank_data
    rendered,           \* labels of the buttons the last run put on the page
    verdict,            \* what the last run displayed for "Check Answer"
    raised,             \* the last run was aborted by an exception
    calls,              \* number of get_json_response calls of the last run
    stopped             \* the last run ended in st.stop() ("Thanks for playing!")

session == <<step, topic_info, hangul_quiz_data, english_quiz_data, fill_blank_data>>
vars == <<step, topic_info, hangul_quiz_data, english_quiz_data, fill_blank_data,
          rendered, verdict, raised, calls, stopped>>

----------------------------------------------------------------------------
(* Values *)

\* Python None
None == [none |-> "None"]
\* Python {}
EmptyDict == << >>
\* get_json_response raised (API failure, or json.loads on unparsable text)
GatewayError == [error |-> "GenerationError"]

\* the keys the prompt of create_wrong_answers asks for, in order
MutationKeys == <<"mutation_1", "mutation_2", "mutation_3">>
\* the last branch of run_game_step
LastStep == 4

\* strings the Gateway can answer with
Topics == {"apple", "bread"}
Str == {"a", "b"}
Explain(s) == "why-" \o s

Range(f) == {f[i] : i \in DOMAIN f}

----------------------------------------------------------------------------
(* What get_json_response can return to each helper: a mapping with all,   *)
(* or only some, of the keys the prompt asks for, or an exception.         *)

TopicReplies ==
    {[topic |-> t, tutorial |-> "tut"] : t \in Topics}
        \cup {[topic |-> t] : t \in Topics}
        \cup {[tutorial |-> "tut"], EmptyDict, GatewayError}

HangulReplies == {[hangul |-> "H"], EmptyDict, GatewayError}

PronunciationReplies ==
    {[thought_process |-> Explain(s), final_sequence |-> s] : s \in Str}
        \cup {[final_sequence |-> s] : s \in Str}
        \cup {[thought_process |-> "why"], GatewayError}

SentenceReplies ==
    {[subject |-> "S", sentence_with_blank |-> "_ B"],
     [subject |-> "S"], [sentence_with_blank |-> "_ B"], GatewayError}

\* a mapping from some of the keys mutation_1 .. mutation_3 to strings
WrongAnswerReplies ==
    UNION {[D -> Str] : D \in SUBSET Range(MutationKeys)} \cup {GatewayError}

\* what random.shuffle draws: an order of the positions of the longest list
ShuffleOrders == Permutations(1..(Len(MutationKeys) + 1))

----------------------------------------------------------------------------
(* Helper functions *)

\* list(wrong_answers.values()): the values of the returned mapping, in key order
RECURSIVE ValuesFrom(_, _)
ValuesFrom(m, k) ==
    IF k > Len(MutationKeys) THEN << >>
    ELSE (IF MutationKeys[k] \in DOMAIN m THEN <<m[MutationKeys[k]]>> ELSE << >>)
             \o ValuesFrom(m, k + 1)

create_wrong_answers(reply) == ValuesFrom(reply, 1)

\* random.shuffle(list): the elements of list in the order the draw puts them
shuffle(list, order) ==
    LET pos == SelectSeq(order, LAMBDA i : i <= Len(list))
    IN  [i \in 1..Len(list) |-> list[pos[i]]]

\* mutant: the correct answer is not appended before the shuffle
answer_choices_wrong_only(correct_answer, wrong_answers, order) ==
    shuffle(wrong_answers, order)

\* answer_choices = wrong_answers + [correct_answer]; random.shuffle(answer_choices)
answer_choices(correct_answer, wrong_answers, order) ==
    shuffle(wrong_answers \o <<correct_answer>>, order)

\* result of a "generate if empty" block: the exception flag, the number of
\* Gateway calls made, and the value assigned to the memo slot (if any)
Aborted(n) == [raised |-> TRUE, calls |-> n, store |-> << >>]
Stored(n, data) == [raised |-> FALSE, calls |-> n, store |-> <<data>>]

\* mutant: a failure of the wrong-answers request is swallowed and nothing is stored
GenerateHangulQuiz_swallows_error(h, t, w, order) ==
    IF h = GatewayError \/ "hangul" \notin DOMAIN h THEN Aborted(1)
    ELSE IF t = GatewayError \/ "final_sequence" \notin DOMAIN t
              \/ "thought_process" \notin DOMAIN t THEN Aborted(2)
    ELSE IF w = GatewayError THEN [raised |-> FALSE, calls |-> 3, store |-> << >>]
    ELSE Stored(3, [hangul |-> h.hangul,
                    correct_answer |-> t.final_sequence,
                    explanation |-> t.thought_process,
                    answer_choices |->
                        answer_choices(t.final_sequence, create_wrong_answers(w), order)])

\* step 1: english_to_korean, hangul_to_korean_pronunciation, create_wrong_answers
GenerateHangulQuiz(h, t, w, order) ==
    IF h = GatewayError \/ "hangul" \notin DOMAIN h THEN Aborted(1)
    ELSE IF t = GatewayError \/ "final_sequence" \notin DOMAIN t
              \/ "thought_process" \notin DOMAIN t THEN Aborted(2)
    ELSE IF w = GatewayError THEN Aborted(3)
    ELSE Stored(3, [hangul |-> h.hangul,
                    correct_answer |-> t.final_sequence,
                    explanation |-> t.thought_process,
                    answer_choices |->
                        answer_choices(t.final_sequence, create_wrong_answers(w), order)])

\* mutant: the slot is written before the wrong answers are requested
GenerateEnglishQuiz_early_store(t, w, order) ==
    IF t = GatewayError \/ "final_sequence" \notin DOMAIN t
         \/ "thought_process" \notin DOMAIN t THEN Aborted(1)
    ELSE IF w = GatewayError
    THEN [raised |-> TRUE, calls |-> 2,
          store |-> <<[correct_answer |-> t.final_sequence,
                       explanation |-> t.thought_process,
                       answer_choices |-> <<t.final_sequence>>]>>]
    ELSE Stored(2, [correct_answer |-> t.final_sequence,
                    explanation |-> t.thought_process,
                    answer_choices |->
                        answer_choices(t.final_sequence, create_wrong_answers(w), order)])

\* step 2: english_to_korean_pronunciation, create_wrong_answers
GenerateEnglishQuiz(t, w, order) ==
    IF t = GatewayError \/ "final_sequence" \notin DOMAIN t
         \/ "thought_process" \notin DOMAIN t THEN Aborted(1)
    ELSE IF w = GatewayError THEN Aborted(2)
    ELSE Stored(2, [correct_answer |-> t.final_sequence,
                    explanation |-> t.thought_process,
                    answer_choices |->
                        answer_choices(t.final_sequence, create_wrong_answers(w), order)])

\* step 3: make_korean_sentence, hangul_to_korean_pronunciation, create_wrong_answers
GenerateFillBlank(sd, t, w, order) ==
    IF sd = GatewayError \/ "subject" \notin DOMAIN sd
         \/ "sentence_with_blank" \notin DOMAIN sd THEN Aborted(1)
    ELSE IF t = GatewayError \/ "final_sequence" \notin DOMAIN t
              \/ "thought_process" \notin DOMAIN t THEN Aborted(2)
    ELSE IF w = GatewayError THEN Aborted(3)
    ELSE Stored(3, [sentence_with_blank |-> sd.sentence_with_blank,
                    correct_answer |-> t.final_sequence,
                    explanation |-> t.thought_process,
                    answer_choices |->
                        answer_choices(t.final_sequence, create_wrong_answers(w), order)])

\* every result the "generate if empty" block of a step can have, over all
\* Gateway replies and all shuffles
HangulOutcomes ==
    {GenerateHangulQuiz(h, t, w, o) : h \in HangulReplies, t \in PronunciationReplies,
                                      w \in WrongAnswerReplies, o \in ShuffleOrders}
EnglishOutcomes ==
    {GenerateEnglishQuiz(t, w, o) : t \in PronunciationReplies,
                                    w \in WrongAnswerReplies, o \in ShuffleOrders}
FillBlankOutcomes ==
    {GenerateFillBlank(sd, t, w, o) : sd \in SentenceReplies, t \in PronunciationReplies,
                                      w \in WrongAnswerReplies, o \in ShuffleOrders}

----------------------------------------------------------------------------
(* Session state *)

Init ==
    /\ step = 0
    /\ topic_info = None
    /\ hangul_quiz_data = EmptyDict
    /\ english_quiz_data = EmptyDict
    /\ fill_blank_data = EmptyDict
    /\ rendered = {}
    /\ verdict = [shown |-> FALSE]
    /\ raised = FALSE
    /\ calls = 0
    /\ stopped = FALSE

\* mutant: the step is advanced by two
next_step_skip(s) == s + 2

next_step(s) == s + 1

\* mutant: the reset goes to the page titled "Step 1" instead of step 0
reset_game_to_step_one ==
    /\ topic_info' = None
    /\ step' = 1
    /\ hangul_quiz_data' = EmptyDict
    /\ english_quiz_data' = EmptyDict
    /\ fill_blank_data' = EmptyDict

\* mutant: the last memo slot is not cleared
reset_game_keeps_fill_blank ==
    /\ topic_info' = None
    /\ step' = 0
    /\ hangul_quiz_data' = EmptyDict
    /\ english_quiz_data' = EmptyDict
    /\ fill_blank_data' = fill_blank_data

\* mutant: one memo slot is not cleared
reset_game_keeps_hangul ==
    /\ topic_info' = None
    /\ step' = 0
    /\ hangul_quiz_data' = hangul_quiz_data
    /\ english_quiz_data' = EmptyDict
    /\ fill_blank_data' = EmptyDict

reset_game ==
    /\ topic_info' = None
    /\ step' = 0
    /\ hangul_quiz_data' = EmptyDict
    /\ english_quiz_data' = EmptyDict
    /\ fill_blank_data' = EmptyDict

\* the memo slot of a quiz step
Slot(s) ==
    CASE s = 1 -> hangul_quiz_data
      [] s = 2 -> english_quiz_data
      [] s = 3 -> fill_blank_data

\* button labels
NextFromTopic == "Next: Pronunciation from Hangul"
CheckAnswer == "Check Answer"
NextFromQuiz(s) ==
    CASE s = 1 -> "Next: Pronunciation from English"
      [] s = 2 -> "Next: Fill-in-the-Blank"
      [] s = 3 -> "Next: Continue or End"
NewTopic == "New Topic!"
EndGame == "End Game"
NoButton == "none"

NoVerdict == [shown |-> FALSE]

\* mutant: the choice is tested for membership in the choices, not for equality
check_answer_in(s, data, user_choice) ==
    IF user_choice \in Range(data.answer_choices)
    THEN [shown |-> TRUE, stage |-> s, choice |-> user_choice, correct |-> TRUE]
    ELSE [shown |-> TRUE, stage |-> s, choice |-> user_choice, correct |-> FALSE,
          correct_answer |-> data.correct_answer, explanation |-> data.explanation]

\* the body of "if st.button('Check Answer')": what is displayed for user_choice
check_answer(s, data, user_choice) ==
    IF user_choice = data.correct_answer
    THEN [shown |-> TRUE, stage |-> s, choice |-> user_choice, correct |-> TRUE]
    ELSE [shown |-> TRUE, stage |-> s, choice |-> user_choice, correct |-> FALSE,
          correct_answer |-> data.correct_answer, explanation |-> data.explanation]

----------------------------------------------------------------------------
(* One execution of run_game_step().  pressed is the button whose click    *)
(* started the run (st.button returns True for it, if the run reaches it), *)
(* st is st.session_state.step as the run reads it.                        *)

\* mutant: the topic is requested on every run at step 0
must_fetch_topic_always(ti) == TRUE

\* "if st.session_state.topic_info is None"
must_fetch_topic(ti) == ti = None

\* mutant: the memo test is dropped, every run generates again
must_generate_always(data) == TRUE

\* "if not st.session_state.<slot>"
must_generate(data) == data = EmptyDict

Outcomes(s) ==
    CASE s = 1 -> HangulOutcomes
      [] s = 2 -> EnglishOutcomes
      [] s = 3 -> FillBlankOutcomes

\* the memo is filled: the block is skipped
Skipped == [raised |-> FALSE, calls |-> 0, store |-> << >>]

\* STEP 0: get a random topic
RunStep0(pressed, st) ==
    /\ \E reply \in (IF must_fetch_topic(topic_info) THEN TopicReplies ELSE {topic_info}) :
         IF reply = GatewayError
         THEN \* get_random_topic raised before the assignment
              /\ topic_info' = topic_info
              /\ step' = st
              /\ calls' = 1
              /\ raised' = TRUE
              /\ rendered' = {}
         ELSE /\ topic_info' = reply
              /\ calls' = IF must_fetch_topic(topic_info) THEN 1 ELSE 0
              /\ IF {"topic", "tutorial"} \subseteq DOMAIN reply
                 THEN /\ raised' = FALSE
                      /\ rendered' = {NextFromTopic}
                      /\ step' = IF pressed = NextFromTopic THEN next_step(st) ELSE st
                 ELSE \* topic_info["topic"] or topic_info["tutorial"] raised
                      /\ raised' = TRUE
                      /\ rendered' = {}
                      /\ step' = st
    /\ verdict' = NoVerdict
    /\ stopped' = FALSE
    /\ UNCHANGED <<hangul_quiz_data, english_quiz_data, fill_blank_data>>

\* mutant: the "Next" button of a quiz step is created outside "if st.button('Check Answer')"
RunQuiz_next_always(pressed, st) ==
    /\ step' = st
    /\ topic_info' = topic_info
    /\ stopped' = FALSE
    /\ IF "topic" \notin DOMAIN topic_info
       THEN \* st.session_state.topic_info["topic"] raised
            /\ raised' = TRUE
            /\ calls' = 0
            /\ rendered' = {}
            /\ verdict' = NoVerdict
            /\ UNCHANGED <<hangul_quiz_data, english_quiz_data, fill_blank_data>>
       ELSE \E out \in (IF must_generate(Slot(st)) THEN Outcomes(st) ELSE {Skipped}) :
              LET data == IF out.store = << >> THEN Slot(st) ELSE out.store[1]
              IN  /\ hangul_quiz_data' = IF st = 1 THEN data ELSE hangul_quiz_data
                  /\ english_quiz_data' = IF st = 2 THEN data ELSE english_quiz_data
                  /\ fill_blank_data' = IF st = 3 THEN data ELSE fill_blank_data
                  /\ calls' = out.calls
                  /\ raised' = out.raised
                  /\ IF out.raised
                     THEN /\ rendered' = {}
                          /\ verdict' = NoVerdict
                     ELSE IF pressed = CheckAnswer
                     THEN /\ \E user_choice \in Range(data.answer_choices) :
                               verdict' = check_answer(st, data, user_choice)
                          /\ rendered' = {CheckAnswer, NextFromQuiz(st)}
                     ELSE /\ verdict' = NoVerdict
                          /\ rendered' = {CheckAnswer, NextFromQuiz(st)}

\* STEP 1, 2, 3: the three quiz branches
RunQuiz(pressed, st) ==
    /\ step' = st
    /\ topic_info' = topic_info
    /\ stopped' = FALSE
    /\ IF "topic" \notin DOMAIN topic_info
       THEN \* st.session_state.topic_info["topic"] raised
            /\ raised' = TRUE
            /\ calls' = 0
            /\ rendered' = {}
            /\ verdict' = NoVerdict
            /\ UNCHANGED <<hangul_quiz_data, english_quiz_data, fill_blank_data>>
       ELSE \E out \in (IF must_generate(Slot(st)) THEN Outcomes(st) ELSE {Skipped}) :
              LET data == IF out.store = << >> THEN Slot(st) ELSE out.store[1]
              IN  /\ hangul_quiz_data' = IF st = 1 THEN data ELSE hangul_quiz_data
                  /\ english_quiz_data' = IF st = 2 THEN data ELSE english_quiz_data
                  /\ fill_blank_data' = IF st = 3 THEN data ELSE fill_blank_data
                  /\ calls' = out.calls
                  /\ raised' = out.raised
                  /\ IF out.raised
                     THEN /\ rendered' = {}
                          /\ verdict' = NoVerdict
                     ELSE IF pressed = CheckAnswer
                     THEN /\ \E user_choice \in Range(data.answer_choices) :
                               verdict' = check_answer(st, data, user_choice)
                          /\ rendered' = {CheckAnswer, NextFromQuiz(st)}
                     ELSE /\ verdict' = NoVerdict
                          /\ rendered' = {CheckAnswer}

\* STEP 4: ask to continue or end
RunStep4(pressed, st) ==
    /\ IF pressed = NewTopic
       THEN reset_game
       ELSE /\ step' = st
            /\ UNCHANGED <<topic_info, hangul_quiz_data, english_quiz_data, fill_blank_data>>
    /\ rendered' = {NewTopic, EndGame}
    /\ stopped' = (pressed = EndGame)
    /\ verdict' = NoVerdict
    /\ raised' = FALSE
    /\ calls' = 0

run_game_step(pressed, st) ==
    IF st = 0 THEN RunStep0(pressed, st)
    ELSE IF st \in 1..3 THEN RunQuiz(pressed, st)
    ELSE IF st = LastStep THEN RunStep4(pressed, st)
    ELSE \* no branch: an empty page
         /\ step' = st
         /\ UNCHANGED <<topic_info, hangul_quiz_data, english_quiz_data, fill_blank_data>>
         /\ rendered' = {}
         /\ stopped' = FALSE
         /\ verdict' = NoVerdict
         /\ raised' = FALSE
         /\ calls' = 0

----------------------------------------------------------------------------
(* User events *)

\* mutant: "End Game" is created with on_click=next_step too
on_click_end_game(b, s) ==
    IF b \in {NextFromQuiz(i) : i \in 1..3} \cup {EndGame} THEN next_step(s) ELSE s

\* mutant: "Check Answer" is created with on_click=next_step too
on_click_check_answer(b, s) ==
    IF b \in {NextFromQuiz(i) : i \in 1..3} \cup {CheckAnswer} THEN next_step(s) ELSE s

\* the callback Streamlit runs before the script when button b is clicked:
\* only the "Next" buttons of the quiz steps are created with on_click=next_step
on_click(b, s) ==
    IF b \in {NextFromQuiz(i) : i \in 1..3} THEN next_step(s) ELSE s

Press(b) ==
    /\ b \in rendered
    /\ run_game_step(b, on_click(b, step))

\* a run no button click started: first load, a change of the radio selection, "Rerun"
Rerun == run_game_step(NoButton, step)

PressNextFromTopic == Press(NextFromTopic)

PressCheckAnswer == Press(CheckAnswer)

PressNextFromQuiz == \E s \in 1..3 : Press(NextFromQuiz(s))

PressNewTopic == Press(NewTopic)

PressEndGame == Press(EndGame)

Next ==
    \/ Rerun
    \/ PressNextFromTopic
    \/ PressCheckAnswer
    \/ PressNextFromQuiz
    \/ PressNewTopic
    \/ PressEndGame

Spec == Init /\ [][Next]_vars

----------------------------------------------------------------------------
(* Properties *)

FilledSlots == {s \in 1..3 : Slot(s) # EmptyDict}

Count(list, x) == Cardinality({i \in DOMAIN list : list[i] = x})

SlotsUnchanged ==
    /\ hangul_quiz_data' = hangul_quiz_data
    /\ english_quiz_data' = english_quiz_data
    /\ fill_blank_data' = fill_blank_data

\* C1: once the memo of the current step is filled (topic_info at step 0, the
\* step's quiz data at steps 1-3), every further run at the same step makes no
\* Gateway call and leaves the memo, including the order of its answer
\* choices, as it is.
C1_RerunReusesMemo ==
    [][(step' = step) =>
         /\ (step = 0 /\ topic_info # None) =>
                (topic_info' = topic_info /\ calls' = 0)
         /\ \A s \in 1..3 :
                (step = s /\ Slot(s) # EmptyDict) =>
                    (Slot(s)' = Slot(s) /\ calls' = 0)]_vars

\* a run at step 1 that found the memo filled, with choices a re-shuffle could reorder
C1_Witness ==
    /\ step = 1
    /\ hangul_quiz_data # EmptyDict
    /\ calls = 0
    /\ rendered = {CheckAnswer}
    /\ Cardinality(Range(hangul_quiz_data.answer_choices)) > 1

\* C2: every filled memo slot holds exactly 4 answer choices, the correct
\* answer exactly once among them, whatever the Gateway returned as wrong answers.
C2_FourChoicesOneCorrect ==
    \A s \in FilledSlots :
        /\ Len(Slot(s).answer_choices) = 4
        /\ Count(Slot(s).answer_choices, Slot(s).correct_answer) = 1

\* C3: the step is always in 0..4, and it decreases only when "New Topic!"
\* is pressed at step 4, which resets it to 0.
C3_StepBoundedMonotone ==
    /\ [](step \in 0..4)
    /\ [][(step' < step) =>
            (step = 4 /\ NewTopic \in rendered /\ step' = 0 /\ topic_info' = None)]_vars

\* the last step was reached and its page is shown
C3_Witness ==
    /\ step = 4
    /\ rendered = {NewTopic, EndGame}
    /\ ~stopped
    /\ FilledSlots = 1..3

\* C4: a displayed verdict says "correct" exactly when the chosen answer equals
\* the correct_answer stored for the step it was checked at, and a "wrong"
\* verdict shows the correct_answer and the explanation stored for that step.
C4_VerdictIffEqual ==
    verdict.shown =>
        /\ verdict.stage = step
        /\ verdict.stage \in FilledSlots
        /\ verdict.correct <=> (verdict.choice = Slot(verdict.stage).correct_answer)
        /\ ~verdict.correct =>
              /\ verdict.correct_answer = Slot(verdict.stage).correct_answer
              /\ verdict.explanation = Slot(verdict.stage).explanation

\* a wrong answer was checked at step 2 while step 1 stores another correct answer
C4_Witness ==
    /\ verdict.shown
    /\ ~verdict.correct
    /\ verdict.stage = 2
    /\ hangul_quiz_data.correct_answer # english_quiz_data.correct_answer

\* C5: leaving step 4 for step 0 ("New Topic!") clears topic_info, the three
\* memo slots and the displayed verdict in the same step; a run at step 0 with
\* no topic_info asks the Gateway for a topic, and a run at a quiz step whose
\* slot is empty asks the Gateway for that step's content.
C5_ResetClearsAll ==
    [][/\ (step = 4 /\ step' # 4) =>
              /\ step' = 0
              /\ topic_info' = None
              /\ hangul_quiz_data' = EmptyDict
              /\ english_quiz_data' = EmptyDict
              /\ fill_blank_data' = EmptyDict
              /\ ~verdict'.shown
       /\ (step = 0 /\ topic_info = None) => calls' = 1
       /\ \A s \in 1..3 :
              (step = s /\ step' = s /\ Slot(s) = EmptyDict) => calls' >= 1]_vars

\* the state right after "New Topic!" was pressed
C5_Witness ==
    /\ step = 0
    /\ topic_info = None
    /\ rendered = {NewTopic, EndGame}
    /\ FilledSlots = {}

\* C6: a run that fails at a quiz step (a Gateway call raised, or its reply
\* lacks a key the step reads) changes neither topic_info nor any memo slot,
\* leaves the step where the run found it and the step's slot empty; the next
\* run at that step calls the Gateway again.
C6_FailedEntryKeepsState ==
    [][/\ (raised' /\ step' \in 1..3) =>
              /\ topic_info' = topic_info
              /\ SlotsUnchanged
              /\ \A s \in 1..3 : (step' = s) => (Slot(s)' = EmptyDict)
              /\ \/ step' = step
                 \/ step' = step + 1 /\ NextFromQuiz(step) \in rendered
       /\ (raised /\ step \in 1..3 /\ step' = step) => calls' >= 1]_vars

\* at step 2 the request for wrong answers failed after the pronunciation arrived
C6_Witness ==
    /\ raised
    /\ step = 2
    /\ calls = 2
    /\ english_quiz_data = EmptyDict

\* C7: once "End Game" was chosen at step 4 no field of the session state
\* changes any more.
C7_EndIsTerminal ==
    [][stopped => (session' = session)]_vars

\* C8: no memo slot is written from fewer than 3 distinct wrong answers.
C8_ThreeDistinctDistractors ==
    \A s \in FilledSlots :
        Cardinality(Range(Slot(s).answer_choices) \ {Slot(s).correct_answer}) >= 3

\* C9: a topic_info that lacks the key topic or the key tutorial is never stored.
C9_TopicInfoHasBothKeys ==
    topic_info # None => {"topic", "tutorial"} \subseteq DOMAIN topic_info

\* C10: a run that checked an answer (it displays a verdict) left the step,
\* topic_info and the three memo slots as they were.
C10_CheckKeepsState ==
    [][verdict'.shown =>
         /\ step' = step
         /\ topic_info' = topic_info
         /\ SlotsUnchanged]_vars

\* a correct answer was checked at step 3
C10_Witness ==
    /\ verdict.shown
    /\ verdict.correct
    /\ verdict.stage = 3

\* C11: every change of the step is an advance by one from a step in 0..3 or
\* the reset from 4 to 0; the end page ("Thanks for playing!") exists only at
\* step 4.
C11_OnlyAdvanceOrReset ==
    /\ [](stopped => step = 4)
    /\ [][(step' # step) =>
            \/ step \in 0..3 /\ step' = step + 1
            \/ step = 4 /\ step' = 0]_vars

\* "End Game" was pressed at step 4 after all three quizzes
C11_Witness ==
    /\ stopped
    /\ step = 4
    /\ FilledSlots = 1..3

\* C12: next_step invoked while the step is 4 leaves the step at 4.
C12_AdvanceClampsAtFour ==
    step = 4 => next_step(step) = step

\* C13: topic_info changes only in a run at step 0 that found it None and
\* asked the Gateway, or in the reset at step 4 that sets it to None; in every
\* other step it keeps its value.
C13_TopicWrittenOnce ==
    [][(topic_info' # topic_info) =>
         \/ /\ step = 0
            /\ step' = 0
            /\ topic_info = None
            /\ calls' = 1
         \/ /\ step = 4
            /\ step' = 0
            /\ topic_info' = None]_vars

\* the third quiz was generated in a round whose topic is "bread"
C13_Witness ==
    /\ step = 3
    /\ "topic" \in DOMAIN topic_info
    /\ topic_info.topic = "bread"
    /\ FilledSlots = 1..3

\* C14: at steps 1, 2 and 3 topic_info is a mapping that has the key topic.
C14_TopicPresentInQuiz ==
    step \in 1..3 => (topic_info # None /\ "topic" \in DOMAIN topic_info)

\* a run at step 2 failed at its first Gateway call; the topic is still there
C14_Witness ==
    /\ step = 2
    /\ raised
    /\ calls = 1
    /\ "topic" \in DOMAIN topic_info

\* C15: the memo slot of step s is filled only if the step is at least s, and
\* it is filled whenever the step is greater than s; at step 0 all are empty.
C15_SlotsFollowStep ==
    \A s \in 1..3 :
        /\ (Slot(s) # EmptyDict) => step >= s
        /\ (step > s) => (Slot(s) # EmptyDict)

\* step 2 was entered and generated: slots 1 and 2 filled, slot 3 empty
C15_Witness ==
    /\ step = 2
    /\ FilledSlots = {1, 2}
    /\ calls = 2
    /\ ~raised

\* C16: the step advances from a quiz step only from a page that displays a
\* verdict of that step.
C16_AdvanceOnlyAfterCheck ==
    [][(step \in 1..3 /\ step' = step + 1) =>
         (verdict.shown /\ verdict.stage = step)]_vars

\* an answer was checked at step 1 and the button to leave the step is on the page
C16_Witness ==
    /\ step = 1
    /\ verdict.shown
    /\ NextFromQuiz(1) \in rendered

\* C17: the "Check Answer" button is on the page only after a run that did
\* not fail and left the current step's slot filled, and a displayed verdict
\* is about a filled slot and a choice taken from its answer_choices.
C17_CheckReadsFilledSlot ==
    /\ (CheckAnswer \in rendered) => (~raised /\ step \in FilledSlots)
    /\ verdict.shown =>
          /\ verdict.stage \in FilledSlots
          /\ verdict.choice \in Range(Slot(verdict.stage).answer_choices)

\* a correct answer was checked at step 1 in a run that generated nothing
C17_Witness ==
    /\ verdict.shown
    /\ verdict.stage = 1
    /\ verdict.correct
    /\ calls = 0

\* a and b hold the same elements the same number of times
IsPermutation(a, b) ==
    /\ Len(a) = Len(b)
    /\ \A x \in Range(a) \cup Range(b) : Count(a, x) = Count(b, x)

\* the lists create_wrong_answers can return
WrongAnswerLists ==
    {create_wrong_answers(w) : w \in WrongAnswerReplies \ {GatewayError}}

\* for every correct answer, every returned list and every shuffle the
\* choices are a permutation of the list followed by the correct answer
ShuffleIsPermutation ==
    \A c \in Str : \A l \in WrongAnswerLists : \A o \in ShuffleOrders :
        IsPermutation(answer_choices(c, l, o), l \o <<c>>)

\* C18: the stored answer_choices are a permutation of the values of a
\* returned mapping followed by the correct answer: they contain the correct
\* answer, and there is one more of them than the mapping has values.
C18_ChoicesArePermutation ==
    /\ ShuffleIsPermutation
    /\ \A s \in FilledSlots :
          /\ Slot(s).correct_answer \in Range(Slot(s).answer_choices)
          /\ \E l \in WrongAnswerLists :
                /\ Len(Slot(s).answer_choices) = Len(l) + 1
                /\ IsPermutation(Slot(s).answer_choices,
                                 l \o <<Slot(s).correct_answer>>)

\* a stored list of four choices among which the correct answer occurs twice
C18_Witness ==
    /\ english_quiz_data # EmptyDict
    /\ Len(english_quiz_data.answer_choices) = 4
    /\ Count(english_quiz_data.answer_choices, english_quiz_data.correct_answer) = 2

====
